---- MODULE Spec2Model ----
(***************************************************************************)
(* Model of the foreign-container adapters of deepsize                     *)
(* (src/src/external_impls.rs): every adapter's deep_size_of_children,     *)
(* run as a fold over the values the container's iterator yields, with     *)
(* the traversal Context threaded through every child call.                *)
(*                                                                         *)
(* A child value is one of                                                 *)
(*   Own(n)  a value whose deep_size_of_children reports n bytes without   *)
(*           consulting the Context (a String, a Box, or a type without    *)
(*           a stable identity that counts on every visit);                *)
(*   Rc(a)   a shared pointer to heap allocation a, whose bytes are        *)
(*           counted through Context's check-and-mark.                     *)
(* usize arithmetic keeps its width: `+` and `*` wrap modulo 2^USIZE_BITS  *)
(* when the build has overflow checks off and panic when it has them on.   *)
(***************************************************************************)
EXTENDS Integers, Sequences, FiniteSets, TLC

\* ------------------------------------------------------------------ bounds
MaxLen == 2        \* most slots / entries / nodes a container holds
MaxCap == 3        \* largest capacity a container reaches
MaxEdges == 1      \* most edges a graph holds
MaxUriSet == 2     \* most components of an OwnedUri that are not Any
InlineCap == 1     \* A::size() of the SmallVec's backing array

\* ------------------------------------------------------- usize arithmetic
\* The width of usize (a 16-bit target; the adapters only use usize).
USIZE_BITS == 16
USIZE_MOD == 2 ^ USIZE_BITS
USIZE_MAX == USIZE_MOD - 1

\* `a + b` and `a * b` on usize: whether the exact result leaves the word,
\* and the word the wrapping build keeps.
add_overflows(a, b) == a + b > USIZE_MAX
wrapping_add(a, b) == (a + b) % USIZE_MOD
mul_overflows(a, b) == a * b > USIZE_MAX
wrapping_mul(a, b) == (a * b) % USIZE_MOD

\* ---------------------------------------------------------------- layout
\* A type as size_of sees it: its size and alignment in bytes.
Ty(s, a) == [size |-> s, align |-> a]
UnitTy == Ty(0, 1)
U8Ty == Ty(1, 1)
U32Ty == Ty(4, 4)
U64Ty == Ty(8, 8)
UsizeTy == Ty(USIZE_BITS \div 8, USIZE_BITS \div 8)

Max(a, b) == IF a >= b THEN a ELSE b
RoundUp(n, a) == ((n + a - 1) \div a) * a

RECURSIVE SumSizes(_)
SumSizes(tys) == IF tys = <<>> THEN 0 ELSE Head(tys).size + SumSizes(Tail(tys))
RECURSIVE MaxAlign(_)
MaxAlign(tys) == IF tys = <<>> THEN 1 ELSE Max(Head(tys).align, MaxAlign(Tail(tys)))

\* size_of::<(A, B, ...)>(): the fields, padded to the largest alignment.
size_of_tuple(tys) == RoundUp(SumSizes(tys), MaxAlign(tys))

\* size_of::<MockEntry<T>>(): a one-byte tag before the larger of the two
\* payloads (usize for _Vacant, T for _Occupied), each at its alignment.
size_of_MockEntry(T) ==
    LET al == Max(UsizeTy.align, T.align)
        vacant == RoundUp(1, UsizeTy.align) + UsizeTy.size
        occupied == RoundUp(1, T.align) + T.size
    IN RoundUp(Max(vacant, occupied), al)

\* The type parameters <K, V> an adapter is instantiated with.
TypeParams == { [K |-> U8Ty, V |-> U64Ty], [K |-> U64Ty, V |-> U8Ty] }

\* ---------------------------------------------------------------- values
Own(n) == [t |-> "Own", n |-> n]
Rc(a) == [t |-> "Rc", n |-> a]
Vacant == [t |-> "Vacant", n |-> 0]
NoKey == [t |-> "NoKey", n |-> 0]

\* A context-free child so large that two of them leave the word.
Big == USIZE_MOD \div 2 + 1

\* Heap allocations behind the shared pointers, and the bytes of each.
Allocs == {1, 2}
alloc_size(a) == IF a = 1 THEN 100 ELSE 7

\* What each allocation points to in turn: a chain 1 -> 2, or the cycle
\* 1 -> 2 -> 1.
HeapShapes == { [a \in Allocs |-> IF a = 1 THEN <<Rc(2)>> ELSE <<>>],
                [a \in Allocs |-> IF a = 1 THEN <<Rc(2)>> ELSE <<Rc(1)>>] }

Vals == {Own(6), Own(Big), Rc(1), Rc(2)}
KeyVals == {Own(0), Rc(1)}
EdgeVals == {Own(5), Rc(1)}

\* cpe: a component or language is a wildcard variant or holds a string
\* with a length and a capacity.
Comp(t, len, cap) == [t |-> t, len |-> len, cap |-> cap]
AnyComp == Comp("Any", 0, 0)
NotApplicable == Comp("NotApplicable", 0, 0)
Value(len, cap) == Comp("Value", len, cap)
LanguageTag(len) == Comp("Language", len, len)

\* ------------------------------------------------------------ containers
Arenas == {"SlotMap", "Slab"}
Vecs == {"ArrayVec", "SmallVec"}
HashKinds == {"HashMap", "HashSet", "IndexMap", "IndexSet"}
CpeKinds == {"OwnedComponent", "Language", "OwnedUri"}
Kinds == Arenas \cup Vecs \cup HashKinds \cup CpeKinds \cup {"Graph"}

Entry(k, v) == [key |-> k, val |-> v]

\* The entries a container of each kind can be given.
EntriesOf(kind) ==
    CASE kind \in {"HashMap", "IndexMap"} -> {Entry(k, v) : k \in KeyVals, v \in Vals}
      [] kind \in {"HashSet", "IndexSet"} -> {Entry(k, NoKey) : k \in Vals}
      [] OTHER -> {Entry(NoKey, v) : v \in Vals}

\* The container right after construction.
New(kind) ==
    [kind |-> kind,
     items |-> CASE kind = "OwnedUri" -> [i \in 1..9 |-> AnyComp]
                 [] kind \in {"OwnedComponent", "Language"} -> <<AnyComp>>
                 [] OTHER -> <<>>,
     edges |-> <<>>,
     cap |-> CASE kind = "SmallVec" -> InlineCap
               [] kind = "ArrayVec" -> MaxCap
               [] OTHER -> 0,
     spilled |-> FALSE]

Occupied(e) == e.val.t # "Vacant"
NumOccupied(items) == Cardinality({i \in 1..Len(items) : Occupied(items[i])})
RemoveAt(s, i) == SubSeq(s, 1, i - 1) \o SubSeq(s, i + 1, Len(s))

RECURSIVE Concat(_)
Concat(ss) == IF ss = <<>> THEN <<>> ELSE Head(ss) \o Concat(Tail(ss))

RECURSIVE NextPowerOfTwo(_)
NextPowerOfTwo(n) == IF n <= 1 THEN 1 ELSE 2 * NextPowerOfTwo((n + 1) \div 2)

\* ----------------------------------------------------------------- state
VARIABLES
    overflow_checks,  \* the build: TRUE panics on usize overflow, FALSE wraps
    refs,             \* the heap: what each allocation points to
    tys,              \* the type parameters <K, V> of the container
    c,                \* the container under measurement
    pc,               \* "idle", "fold" (inside deep_size_of_children), "done", "panicked"
    ctx,              \* the Context: allocations already counted in this call
    todo,             \* children the adapter's iterator has still to yield
    stack,            \* shared pointers whose child call is pending
    sum,              \* the fold's accumulator
    result            \* what deep_size_of_children returned

vars == <<overflow_checks, refs, tys, c, pc, ctx, todo, stack, sum, result>>
env == <<overflow_checks, refs, tys>>
call == <<ctx, todo, stack, sum, result>>

Init ==
    /\ overflow_checks \in BOOLEAN
    /\ refs \in HeapShapes
    /\ tys \in TypeParams
    /\ c \in {New(kind) : kind \in Kinds}
    /\ pc = "idle"
    /\ ctx = {}
    /\ todo = <<>>
    /\ stack = <<>>
    /\ sum = 0
    /\ result = 0

\* ------------------------------------------ what the host does to a container
Growable == Arenas \cup HashKinds \cup {"SmallVec"}

\* The capacity after growing to hold one more than len: the SmallVec
\* takes the next power of two, the other libraries any larger capacity.
GrownCaps(kind, len) ==
    IF kind = "SmallVec" THEN {NextPowerOfTwo(len + 1)} \cap (len + 1..MaxCap)
    ELSE len + 1..MaxCap

FirstVacant(items) ==
    LET vac == {i \in 1..Len(items) : ~Occupied(items[i])}
    IN IF vac = {} THEN 0 ELSE CHOOSE i \in vac : \A j \in vac : i <= j

\* insert / push / add_node: an arena reuses its first vacant slot, every
\* other container appends; a full container grows first.
Insert(e) ==
    /\ pc = "idle"
    /\ c.kind \in Arenas \cup Vecs \cup HashKinds \cup {"Graph"}
    /\ LET slot == IF c.kind \in Arenas THEN FirstVacant(c.items) ELSE 0
           full == c.kind # "Graph" /\ Len(c.items) = c.cap
       IN IF slot # 0
          THEN c' = [c EXCEPT !.items[slot] = e]
          ELSE /\ Len(c.items) < MaxLen
               /\ IF full
                  THEN /\ c.kind \in Growable
                       /\ \E n \in GrownCaps(c.kind, Len(c.items)) :
                            c' = [c EXCEPT !.items = Append(@, e), !.cap = n,
                                           !.spilled = (c.kind = "SmallVec")]
                  ELSE c' = [c EXCEPT !.items = Append(@, e)]
    /\ UNCHANGED <<env, pc, call>>

\* remove: an arena leaves the slot vacant, every other container closes
\* the gap. The capacity stays, except that a hash table can lose the
\* removed bucket to a tombstone.
Remove(i) ==
    /\ pc = "idle"
    /\ c.kind \in Arenas \cup Vecs \cup HashKinds
    /\ i \in 1..Len(c.items)
    /\ Occupied(c.items[i])
    /\ LET left == IF c.kind \in Arenas
                   THEN [c.items EXCEPT ![i] = Entry(NoKey, Vacant)]
                   ELSE RemoveAt(c.items, i)
           caps == IF c.kind \in HashKinds
                   THEN {c.cap, c.cap - 1} \cap (Len(left)..MaxCap)
                   ELSE {c.cap}
       IN \E n \in caps : c' = [c EXCEPT !.items = left, !.cap = n]
    /\ UNCHANGED <<env, pc, call>>

\* reserve / with_capacity: more capacity, the same elements; a SmallVec
\* that grows past its inline array spills.
Reserve(n) ==
    /\ pc = "idle"
    /\ c.kind \in Growable
    /\ n \in c.cap + 1..MaxCap
    /\ c' = [c EXCEPT !.cap = n, !.spilled = (c.kind = "SmallVec")]
    /\ UNCHANGED <<env, pc, call>>

\* add_edge between nodes the graph holds.
AddEdge(w) ==
    /\ pc = "idle"
    /\ c.kind = "Graph"
    /\ Len(c.items) >= 1
    /\ Len(c.edges) < MaxEdges
    /\ c' = [c EXCEPT !.edges = Append(@, w)]
    /\ UNCHANGED <<env, pc, call>>

\* The strings an OwnedUri stores are owned copies, exactly as long as
\* their text; a free-standing OwnedComponent may hold spare capacity.
CompsOf(kind, i) ==
    CASE kind = "OwnedComponent" -> {AnyComp, NotApplicable, Value(3, 3), Value(3, 8)}
      [] kind = "Language" -> {AnyComp, LanguageTag(2)}
      [] kind = "OwnedUri" /\ i = 9 -> {AnyComp, LanguageTag(2)}
      [] OTHER -> {AnyComp, NotApplicable, Value(3, 3)}

\* Replace the component (of an OwnedUri: its i-th of nine).
SetComponent(i, comp) ==
    /\ pc = "idle"
    /\ c.kind \in CpeKinds
    /\ i \in 1..Len(c.items)
    /\ comp \in CompsOf(c.kind, i)
    /\ comp # c.items[i]
    /\ LET items == [c.items EXCEPT ![i] = comp]
       IN /\ Cardinality({j \in 1..Len(items) : items[j].t # "Any"}) <= MaxUriSet
          /\ c' = [c EXCEPT !.items = items]
    /\ UNCHANGED <<env, pc, call>>

\* -------------------------------------------------------------- adapters
\* Each adapter is the sequence of children its fold visits, in order, and
\* the capacity term it adds: n slots of size bytes each.
Term(n, size) == [n |-> n, size |-> size]
NoTerm == Term(0, 0)
Vals_of(items) == [i \in 1..Len(items) |-> items[i].val]
Keys_of(items) == [i \in 1..Len(items) |-> items[i].key]
KeysAndVals_of(items) == Concat([i \in 1..Len(items) |-> <<items[i].key, items[i].val>>])
OccupiedItems(items) == SelectSeq(items, Occupied)

\* known_deep_size!(0; slotmap::KeyData, slotmap::DefaultKey)
DefaultKey_deep_size_of_children == 0

\* SlotMap<K, V>: the key and the value of every occupied slot.
SlotMap_iter(x) ==
    Concat([i \in 1..Len(OccupiedItems(x.items)) |->
              <<Own(DefaultKey_deep_size_of_children), OccupiedItems(x.items)[i].val>>])
SlotMap_term(x, ty) == Term(x.cap, size_of_tuple(<<U32Ty, ty.V>>))

\* Mutant: the slot sized as a bare T, without the shadow entry.
Slab_term_bare_T(x, ty) == Term(x.cap, ty.V.size)

\* Slab<T>: the value of every occupied slot.
Slab_iter(x) == Vals_of(OccupiedItems(x.items))
Slab_term(x, ty) == Term(x.cap, size_of_MockEntry(ty.V))

\* ArrayVec<A>: its elements, nothing for the array.
ArrayVec_iter(x) == Vals_of(x.items)

\* Mutant: the capacity term added whether spilled or not.
SmallVec_term_unconditional(x, ty) == Term(x.cap, ty.V.size)

\* SmallVec<A>: its elements, and the heap buffer once spilled.
SmallVec_iter(x) == Vals_of(x.items)
SmallVec_term(x, ty) == IF x.spilled THEN Term(x.cap, ty.V.size) ELSE NoTerm

\* Mutants: len() taken where capacity() is meant.
HashMap_term_len(x, ty) == Term(Len(x.items), size_of_tuple(<<ty.K, ty.V>>))
HashSet_term_len(x, ty) == Term(Len(x.items), ty.K.size)

\* hashbrown::HashMap<K, V, S> and HashSet<K, S>.
HashMap_iter(x) == KeysAndVals_of(x.items)
HashMap_term(x, ty) == Term(x.cap, size_of_tuple(<<ty.K, ty.V>>))
HashSet_iter(x) == Keys_of(x.items)
HashSet_term(x, ty) == Term(x.cap, ty.K.size)

\* IndexMap<K, V, S> and IndexSet<K, S>.
IndexMap_iter(x) == KeysAndVals_of(x.items)
IndexMap_term(x, ty) ==
    Term(x.cap, size_of_tuple(<<UsizeTy, ty.K, ty.V>>) + UsizeTy.size)
IndexSet_iter(x) == Keys_of(x.items)
IndexSet_term(x, ty) ==
    Term(x.cap, size_of_tuple(<<UsizeTy, ty.K, UnitTy>>) + UsizeTy.size)

\* String reports its capacity; str owns nothing of its own.
String_deep_size_of_children(s) == s.cap
str_deep_size_of_children(s) == 0

\* OwnedComponent: the string of a Value, nothing for Any / NotApplicable.
OwnedComponent_children(comp) ==
    IF comp.t = "Value" THEN <<Own(String_deep_size_of_children(comp))>> ELSE <<>>

\* Language: the text of a Language tag, nothing for Any.
Language_children(comp) ==
    IF comp.t = "Language" THEN <<Own(str_deep_size_of_children(comp))>> ELSE <<>>

\* to_owned(): an owned copy, whose string is allocated to fit its text.
to_owned(comp) == [comp EXCEPT !.cap = comp.len]

\* Mutant: the eighth component, other(), left out of the sum.
OwnedUri_children_without_other(x) ==
    Concat([i \in 1..7 |-> OwnedComponent_children(to_owned(x.items[i]))])
        \o Language_children(to_owned(x.items[9]))

\* OwnedUri: an owned copy of each of the nine components, in order:
\* vendor, product, version, update, edition, sw_edition, target_sw,
\* other, language.
OwnedUri_children(x) ==
    Concat([i \in 1..8 |-> OwnedComponent_children(to_owned(x.items[i]))])
        \o Language_children(to_owned(x.items[9]))

\* [T]: the children of every element of the slice.
slice_deep_size_of_children(weights) == weights

\* Node<N> and Edge<E>: the weight alone.
Node_children(node) == node.val
Edge_children(edge) == edge

\* Mutant: raw_edges() left out of the sum.
Graph_children_nodes_only(x) ==
    slice_deep_size_of_children([i \in 1..Len(x.items) |-> Node_children(x.items[i])])

\* Graph<N, E>: raw_nodes(), then raw_edges().
Graph_children(x) ==
    slice_deep_size_of_children([i \in 1..Len(x.items) |-> Node_children(x.items[i])])
        \o slice_deep_size_of_children([i \in 1..Len(x.edges) |-> Edge_children(x.edges[i])])

Children(x) ==
    CASE x.kind = "SlotMap" -> SlotMap_iter(x)
      [] x.kind = "Slab" -> Slab_iter(x)
      [] x.kind = "ArrayVec" -> ArrayVec_iter(x)
      [] x.kind = "SmallVec" -> SmallVec_iter(x)
      [] x.kind = "HashMap" -> HashMap_iter(x)
      [] x.kind = "HashSet" -> HashSet_iter(x)
      [] x.kind = "IndexMap" -> IndexMap_iter(x)
      [] x.kind = "IndexSet" -> IndexSet_iter(x)
      [] x.kind = "OwnedComponent" -> OwnedComponent_children(x.items[1])
      [] x.kind = "Language" -> Language_children(x.items[1])
      [] x.kind = "OwnedUri" -> OwnedUri_children(x)
      [] x.kind = "Graph" -> Graph_children(x)

CapacityTerm(x, ty) ==
    CASE x.kind = "SlotMap" -> SlotMap_term(x, ty)
      [] x.kind = "Slab" -> Slab_term(x, ty)
      [] x.kind = "SmallVec" -> SmallVec_term(x, ty)
      [] x.kind = "HashMap" -> HashMap_term(x, ty)
      [] x.kind = "HashSet" -> HashSet_term(x, ty)
      [] x.kind = "IndexMap" -> IndexMap_term(x, ty)
      [] x.kind = "IndexSet" -> IndexSet_term(x, ty)
      [] OTHER -> NoTerm

\* Mutants: an adapter handing each child a Context of its own.
HashMap_fresh_context(kind, cx) == IF kind = "HashMap" THEN {} ELSE cx
Slab_fresh_context(kind, cx) == IF kind = "Slab" THEN {} ELSE cx

\* The Context an adapter hands to a child: the one it was given.
ChildContext(kind, cx) == cx

\* ----------------------------------------------------------- measurement
\* Context's check-and-mark: whether allocation a is new to the Context.
check_and_mark(cx, a) == a \notin cx

\* One child's deep_size_of_children under Context cx: the bytes it adds
\* itself, the Context afterwards and the children it goes on to visit.
Visit(v, cx) ==
    IF v.t = "Rc" /\ check_and_mark(cx, v.n)
    THEN [add |-> alloc_size(v.n), ctx |-> cx \cup {v.n}, push |-> refs[v.n]]
    ELSE [add |-> IF v.t = "Own" THEN v.n ELSE 0, ctx |-> cx, push |-> <<>>]

\* sum + n on usize: a panic under overflow checks, else the wrapped sum.
Accumulate(n) ==
    IF overflow_checks /\ add_overflows(sum, n)
    THEN pc' = "panicked" /\ sum' = sum
    ELSE pc' = pc /\ sum' = wrapping_add(sum, n)

\* The top-level call: a fresh Context, then the adapter's fold begins.
MeasureBegin ==
    /\ pc = "idle"
    /\ pc' = "fold"
    /\ ctx' = {}
    /\ sum' = 0
    /\ todo' = Children(c)
    /\ stack' = <<>>
    /\ UNCHANGED <<env, c, result>>

\* The fold's next child.
FoldStep ==
    /\ pc = "fold"
    /\ stack = <<>>
    /\ todo # <<>>
    /\ LET r == Visit(Head(todo), ChildContext(c.kind, ctx))
       IN /\ Accumulate(r.add)
          /\ ctx' = r.ctx
          /\ stack' = r.push
    /\ todo' = Tail(todo)
    /\ UNCHANGED <<env, c, result>>

\* Inside a shared pointer's child call: the next thing its pointee owns.
NestedStep ==
    /\ pc = "fold"
    /\ stack # <<>>
    /\ LET r == Visit(Head(stack), ctx)
       IN /\ Accumulate(r.add)
          /\ ctx' = r.ctx
          /\ stack' = r.push \o Tail(stack)
    /\ UNCHANGED <<env, c, todo, result>>

\* The fold is over: add capacity * size_of and return.
MeasureEnd ==
    /\ pc = "fold"
    /\ stack = <<>>
    /\ todo = <<>>
    /\ LET t == CapacityTerm(c, tys)
       IN IF overflow_checks /\ (mul_overflows(t.n, t.size)
                \/ add_overflows(sum, wrapping_mul(t.n, t.size)))
          THEN pc' = "panicked" /\ result' = result
          ELSE /\ pc' = "done"
               /\ result' = wrapping_add(sum, wrapping_mul(t.n, t.size))
    /\ UNCHANGED <<env, c, ctx, todo, stack, sum>>

\* The caller takes the result (or the panic has unwound).
Return ==
    /\ pc \in {"done", "panicked"}
    /\ pc' = "idle"
    /\ ctx' = {}
    /\ todo' = <<>>
    /\ stack' = <<>>
    /\ sum' = 0
    /\ result' = 0
    /\ UNCHANGED <<env, c>>

MeasureStep == FoldStep \/ NestedStep \/ MeasureEnd

Next ==
    \/ \E e \in EntriesOf(c.kind) : Insert(e)
    \/ \E i \in 1..MaxLen + 1 : Remove(i)
    \/ \E n \in 1..MaxCap : Reserve(n)
    \/ \E w \in EdgeVals : AddEdge(w)
    \/ \E i \in 1..9, comp \in {AnyComp, NotApplicable, Value(3, 3), Value(3, 8), LanguageTag(2)} :
          SetComponent(i, comp)
    \/ MeasureBegin
    \/ FoldStep
    \/ NestedStep
    \/ MeasureEnd
    \/ Return

Spec == Init /\ [][Next]_vars

\* A measurement is one synchronous call: once begun it keeps running.
FairSpec == Spec /\ WF_vars(MeasureStep)

\* ---------------------------------------------------------------- claims
\* Exact (unbounded) byte counts, against which the returned usize is held.
RECURSIVE SumOwn(_)
SumOwn(vs) ==
    IF vs = <<>> THEN 0
    ELSE (IF Head(vs).t = "Own" THEN Head(vs).n ELSE 0) + SumOwn(Tail(vs))

RECURSIVE SumAllocs(_)
SumAllocs(S) ==
    IF S = {} THEN 0
    ELSE LET a == CHOOSE x \in S : TRUE IN alloc_size(a) + SumAllocs(S \ {a})

RcIds(vs) == {vs[i].n : i \in {j \in 1..Len(vs) : vs[j].t = "Rc"}}
PointsTo(a) == RcIds(refs[a])

\* The allocations reachable from S through the heap.
RECURSIVE Closure(_, _)
Closure(S, n) ==
    IF n = 0 THEN S ELSE Closure(S \cup UNION {PointsTo(a) : a \in S}, n - 1)
Reach(S) == Closure(S, Cardinality(Allocs))

\* Children sizes with every distinct allocation counted once.
ExactChildren(vs) == SumOwn(vs) + SumAllocs(Reach(RcIds(vs)))
ExactTerm(x) == CapacityTerm(x, tys).n * CapacityTerm(x, tys).size
ExactOwned(x) == ExactChildren(Children(x)) + ExactTerm(x)

Finished == pc \in {"done", "panicked"}
\* The call has ended on a container whose exact size e is a usize, and
\* it returned e.
Returns(e) == e <= USIZE_MAX => pc = "done" /\ result = e
References(a) == Cardinality({i \in 1..Len(Children(c)) : Children(c)[i] = Rc(a)})
OnCycle(a) == a \in Reach(PointsTo(a))

\* C1: within one measure call, an allocation that the value references N
\* times (through whichever adapter) is counted once: whenever the exact
\* total, with every distinct reachable allocation taken once, is a usize,
\* the call returns exactly that total, whatever N is.
C1_SharedCountedOnce == Finished => Returns(ExactOwned(c))

C1_Witness ==
    /\ pc = "done"
    /\ c.kind = "HashMap"
    /\ References(1) >= 2
    /\ result = ExactOwned(c)

\* C2: a measurement of a cyclic ownership graph ends, and the allocations
\* on the cycle are counted once: the visit that closes the cycle finds the
\* identity marked, adds nothing and goes no further.
\* The call is about to visit a shared pointer whose allocation is marked.
Revisit ==
    /\ pc = "fold"
    /\ stack # <<>> \/ todo # <<>>
    /\ LET v == IF stack # <<>> THEN Head(stack) ELSE Head(todo)
       IN v.t = "Rc" /\ v.n \in ctx

C2_CyclesEndCountedOnce ==
    /\ (pc = "fold") ~> Finished
    /\ [][Revisit => sum' = sum /\ ctx' = ctx /\ pc' = pc
                      /\ Len(stack') = Max(Len(stack), 1) - 1]_vars
    /\ [](Finished /\ (\E a \in Reach(RcIds(Children(c))) : OnCycle(a))
            => Returns(ExactOwned(c)))

C2_Witness ==
    /\ pc = "done"
    /\ c.kind = "Slab"
    /\ \E a \in RcIds(Children(c)) : OnCycle(a)
    /\ ctx = Allocs
    /\ result = ExactOwned(c)

\* C3: every accumulation saturates: a returned size whose exact value
\* exceeds usize::MAX is usize::MAX.
C3_Saturates == pc = "done" /\ ExactOwned(c) > USIZE_MAX => result = USIZE_MAX

\* C4: no adapter ever panics or aborts the measurement.
C4_NeverPanics == pc # "panicked"

\* C5: a SmallVec that is not spilled owns exactly its elements' children,
\* a spilled one owns them plus capacity * size_of(element), after any
\* pushes, removals and reservations.
C5_SmallVec ==
    Finished /\ c.kind = "SmallVec" =>
        Returns(ExactChildren(Vals_of(c.items))
                  + (IF c.spilled THEN c.cap * tys.V.size ELSE 0))

C5_Witness ==
    /\ pc = "done"
    /\ c.kind = "SmallVec"
    /\ c.spilled
    /\ 1 <= Len(c.items) /\ Len(c.items) < c.cap
    /\ result = SumOwn(Vals_of(c.items)) + c.cap * tys.V.size
    /\ result > c.cap * tys.V.size

\* The per-slot size each capacity-bearing adapter multiplies by.
SlotSize(kind) ==
    CASE kind = "SlotMap" -> size_of_tuple(<<U32Ty, tys.V>>)
      [] kind = "Slab" -> size_of_MockEntry(tys.V)
      [] kind = "SmallVec" -> tys.V.size
      [] kind = "HashMap" -> size_of_tuple(<<tys.K, tys.V>>)
      [] kind = "HashSet" -> tys.K.size
      [] kind = "IndexMap" -> size_of_tuple(<<UsizeTy, tys.K, tys.V>>) + UsizeTy.size
      [] kind = "IndexSet" -> size_of_tuple(<<UsizeTy, tys.K, UnitTy>>) + UsizeTy.size

\* A step that removes elements and leaves the capacity as it was.
RemovalKeepingCapacity ==
    /\ c.kind \in Growable
    /\ c'.kind = c.kind
    /\ NumOccupied(c'.items) < NumOccupied(c.items)
    /\ c'.cap = c.cap

\* C6 as stated: a removal that keeps capacity C leaves the capacity term
\* of every capacity-bearing adapter unchanged and equal to C * slot_size.
C6_CapacityTermIsCapTimesSlot ==
    [][RemovalKeepingCapacity =>
         /\ ExactTerm(c') = ExactTerm(c)
         /\ ExactTerm(c') = c.cap * SlotSize(c.kind)]_vars

\* C6 as amended: the same, except that a SmallVec that is not spilled has
\* no capacity term, before and after the removal.
C6_CapacityTermKept ==
    [][RemovalKeepingCapacity =>
         /\ ExactTerm(c') = ExactTerm(c)
         /\ ExactTerm(c') = IF c.kind = "SmallVec" /\ ~c.spilled THEN 0
                            ELSE c.cap * SlotSize(c.kind)]_vars

C6_Witness ==
    /\ pc = "done"
    /\ c.kind = "SlotMap"
    /\ c.cap = 3
    /\ c.items = <<Entry(NoKey, Own(6)), Entry(NoKey, Vacant)>>
    /\ result = 3 * SlotSize("SlotMap") + 6

\* C7: a slot arena (Slab, SlotMap) owns capacity * size(shadow entry) plus
\* the children of the values in its occupied slots, and nothing else.
C7_SlotArena ==
    Finished /\ c.kind \in Arenas =>
        Returns(c.cap * (IF c.kind = "Slab" THEN size_of_MockEntry(tys.V)
                         ELSE size_of_tuple(<<U32Ty, tys.V>>))
                  + ExactChildren(Vals_of(OccupiedItems(c.items))))

C7_Witness ==
    /\ pc = "done"
    /\ c.kind = "Slab"
    /\ tys.V = U8Ty
    /\ c.cap = 3
    /\ c.items = <<Entry(NoKey, Vacant), Entry(NoKey, Own(6))>>
    /\ result = 3 * 4 + 6

\* C8: a graph owns the children of its node weights plus the children of
\* its edge weights; the node and edge records add nothing.
C8_Graph ==
    Finished /\ c.kind = "Graph" =>
        Returns(ExactChildren(Vals_of(c.items) \o c.edges))

C8_Witness ==
    /\ pc = "done"
    /\ c.kind = "Graph"
    /\ c.items = <<Entry(NoKey, Own(6)), Entry(NoKey, Rc(2))>>
    /\ c.edges = <<Own(5)>>
    /\ refs[2] = <<>>
    /\ result = 6 + 7 + 5

\* C9: a hashbrown map owns its keys' and values' children plus
\* capacity * size_of::<(K, V)>(); a set its keys' children plus
\* capacity * size_of::<K>().
C9_HashMapAndSet ==
    /\ Finished /\ c.kind = "HashMap" =>
         Returns(ExactChildren(KeysAndVals_of(c.items))
                   + c.cap * size_of_tuple(<<tys.K, tys.V>>))
    /\ Finished /\ c.kind = "HashSet" =>
         Returns(ExactChildren(Keys_of(c.items)) + c.cap * tys.K.size)

C9_Witness ==
    /\ pc = "done"
    /\ c.kind = "HashSet"
    /\ c.items = <<>>
    /\ tys.K = U64Ty
    /\ c.cap = 3
    /\ result = 3 * 8

\* What one stored component or language owns: the children of the value
\* it holds, nothing for a wildcard.
CompOwned(comp) ==
    CASE comp.t = "Value" -> String_deep_size_of_children(comp)
      [] comp.t = "Language" -> str_deep_size_of_children(comp)
      [] OTHER -> 0

RECURSIVE SumComps(_)
SumComps(cs) == IF cs = <<>> THEN 0 ELSE CompOwned(Head(cs)) + SumComps(Tail(cs))

\* C10: an OwnedComponent or Language owns the children of the value it
\* holds and exactly 0, the Context untouched, in a wildcard variant; an
\* OwnedUri owns the sum of that over its nine components.
C10_Cpe ==
    Finished /\ c.kind \in CpeKinds =>
        /\ pc = "done"
        /\ result = SumComps(c.items)
        /\ ctx = {}

C10_Witness ==
    /\ pc = "done"
    /\ c.kind = "OwnedUri"
    /\ c.items[8].t = "Value"
    /\ c.items[2].t = "NotApplicable"
    /\ result = 3
====
